---- MODULE Spec2Model ----
(***************************************************************************)
(* Typed request correlation of bevy_http_client (src/src/typed.rs).       *)
(*                                                                         *)
(* The world is a set of entities carrying components.  The transport      *)
(* attaches a raw carrier (HttpResponse or HttpResponseError) to an        *)
(* entity; one handle_typed_response::<T> system per registered type T     *)
(* runs once per frame, matches the entities whose carrier is Added since  *)
(* its own previous run and which hold RequestType<T>, and queues          *)
(* insert(TypedResponse<T>) / remove::<RequestType<T>>() commands.  The    *)
(* commands are deferred: they take effect when the schedule applies the   *)
(* systems' command buffers at the end of the frame.                       *)
(*                                                                         *)
(* Added<C> is modelled without tick numbers: for every carrier the world  *)
(* keeps the set of systems whose last run is older than the carrier's     *)
(* added tick (the systems that have not observed the addition yet).  A    *)
(* system's run makes every carrier present at that moment "observed" by   *)
(* it; inserting a component the entity already holds replaces the value   *)
(* and keeps the added tick.                                               *)
(***************************************************************************)
EXTENDS Integers, Sequences, FiniteSets, TLC

\* ------------------------------------------------------------------ bounds
NumEntities == 2
MaxWatchers == 2
\* The runs explored hold at most MaxEvents events of the collaborators and
\* the application (bundles attached, carriers attached, markers removed,
\* entities despawned); the number of frames is not bounded.
MaxEvents == 4
\* At most MaxCalls calls of parse() on one TypedResponse are explored.
MaxCalls == 2

Entities == 1..NumEntities
Slots == 1..MaxWatchers

\* The result types T the application uses.
Types == {"u32", "bool"}

\* ------------------------------------------------------------- option type
None == <<>>
Some(x) == <<x>>
IsSome(o) == o # <<>>
Unwrap(o) == o[1]

\* ------------------------------------------------------------ payload data
\* A text is a sequence of characters.
Txt42 == <<"4", "2">>
TxtTrue == <<"t", "r", "u", "e">>
TxtNotJson == <<"n", "o", "t", " ", "j", "s", "o", "n">>

\* ehttp::Response, as far as this code reads it: text() is Some(text) when
\* the body is valid UTF-8 and None otherwise.
Response(textOpt) == [text |-> textOpt]
NoResponse == Response(None)

\* The payloads the transport delivers in the runs explored: the JSON text
\* of a u32 (which is no bool) and the JSON text of a bool (which is no u32).
Payloads == {Response(Some(Txt42)), Response(Some(TxtTrue))}
\* The error message the transport delivers in the runs explored.
Messages == {"timeout"}

\* Result<Response, String>
Ok(response) == [ok |-> TRUE, response |-> response, message |-> ""]
Err(message) == [ok |-> FALSE, response |-> NoResponse, message |-> message]

\* ----------------------------------------------------- structured decoding
IsWs(c) == c \in {" ", "\n", "\t", "\r"}
DigitChars == <<"0", "1", "2", "3", "4", "5", "6", "7", "8", "9">>
IsDigit(c) == \E d \in 1..10 : DigitChars[d] = c
DigitVal(c) == (CHOOSE d \in 1..10 : DigitChars[d] = c) - 1

\* The first position from i on that holds no whitespace (Len(s) + 1: none).
RECURSIVE SkipWs(_, _)
SkipWs(s, i) == IF i <= Len(s) /\ IsWs(s[i]) THEN SkipWs(s, i + 1) ELSE i

\* The first position from i on that holds no digit.
RECURSIVE DigitsEnd(_, _)
DigitsEnd(s, i) == IF i <= Len(s) /\ IsDigit(s[i]) THEN DigitsEnd(s, i + 1) ELSE i

\* The number a digit string denotes.
RECURSIVE DigitsValue(_)
DigitsValue(ds) ==
    IF ds = <<>> THEN 0
    ELSE 10 * DigitsValue(SubSeq(ds, 1, Len(ds) - 1)) + DigitVal(ds[Len(ds)])

\* u32::MAX = 4294967295, digit by digit (the number itself is wider than
\* the integers of the checker).
U32MaxDigits == <<"4", "2", "9", "4", "9", "6", "7", "2", "9", "5">>

\* Digit strings of equal length: a denotes a larger number than b.
RECURSIVE DigitsGreater(_, _)
DigitsGreater(a, b) ==
    IF a = <<>> THEN FALSE
    ELSE IF DigitVal(Head(a)) # DigitVal(Head(b))
         THEN DigitVal(Head(a)) > DigitVal(Head(b))
         ELSE DigitsGreater(Tail(a), Tail(b))

\* A digit string without leading zero denotes a number above u32::MAX.
ExceedsU32(ds) ==
    \/ Len(ds) > Len(U32MaxDigits)
    \/ Len(ds) = Len(U32MaxDigits) /\ DigitsGreater(ds, U32MaxDigits)

\* A decoder for u32 that stops at the end of the number and does not look
\* at what follows it.
from_str_u32_NoEnd(s) ==
    LET i == SkipWs(s, 1)
        j == DigitsEnd(s, i)
        ds == SubSeq(s, i, j - 1)
    IN  IF i > Len(s) THEN None
        ELSE IF ~IsDigit(s[i]) THEN None
        ELSE IF s[i] = "0" /\ j > i + 1 THEN None
        ELSE IF ExceedsU32(ds) THEN None
        ELSE Some(DigitsValue(ds))

\* serde_json::from_str::<u32>(s): optional whitespace, an unsigned integer
\* literal without leading zero, fraction or exponent, at most u32::MAX,
\* optional whitespace, end of input.  Anything else is an error (None).
from_str_u32(s) ==
    LET i == SkipWs(s, 1)
        j == DigitsEnd(s, i)
        ds == SubSeq(s, i, j - 1)
    IN  IF i > Len(s) THEN None
        ELSE IF ~IsDigit(s[i]) THEN None
        ELSE IF s[i] = "0" /\ j > i + 1 THEN None
        ELSE IF j <= Len(s) /\ s[j] \in {".", "e", "E"} THEN None
        ELSE IF ExceedsU32(ds) THEN None
        ELSE IF SkipWs(s, j) <= Len(s) THEN None
        ELSE Some(DigitsValue(ds))

\* serde_json::from_str::<bool>(s): optional whitespace, the literal true or
\* false, optional whitespace, end of input.
from_str_bool(s) ==
    LET i == SkipWs(s, 1)
        IsAt(lit) == i + Len(lit) - 1 <= Len(s) /\ SubSeq(s, i, i + Len(lit) - 1) = lit
        Rest(lit) == SkipWs(s, i + Len(lit)) > Len(s)
    IN  IF IsAt(<<"t", "r", "u", "e">>) /\ Rest(<<"t", "r", "u", "e">>) THEN Some(TRUE)
        ELSE IF IsAt(<<"f", "a", "l", "s", "e">>) /\ Rest(<<"f", "a", "l", "s", "e">>)
             THEN Some(FALSE)
        ELSE None

\* serde_json::from_str::<T>(s)
from_str(T, s) == IF T = "u32" THEN from_str_u32(s) ELSE from_str_bool(s)

\* parse() ending in Some(default) where the code ends in None.
parse_DefaultOnError(r, T) ==
    IF r.ok /\ IsSome(r.response.text)
            /\ IsSome(from_str(T, Unwrap(r.response.text)))
    THEN from_str(T, Unwrap(r.response.text))
    ELSE Some(IF T = "u32" THEN 0 ELSE FALSE)

\* TypedResponse::<T>::parse(&self), on a holder whose result field is r.
parse(r, T) ==
    IF r.ok
    THEN IF IsSome(r.response.text)
         THEN from_str(T, Unwrap(r.response.text))
         ELSE None
    ELSE None

\* ------------------------------------------------------------------- state
VARIABLES
    spawned,      \* entity ids ever allocated
    alive,        \* entities that exist
    request,      \* request[e]: the entity holds HttpRequest
    resp,         \* resp[e]: Option of the HttpResponse payload
    err,          \* err[e]: Option of the HttpResponseError message
    marker,       \* marker[e][T]: the entity holds RequestType<T>
    typed,        \* typed[e][T]: Option of TypedResponse<T>.result
    unseenResp,   \* unseenResp[e]: systems for which HttpResponse on e is Added
    unseenErr,    \* unseenErr[e]: systems for which HttpResponseError on e is Added
    sysType,      \* sysType[s]: Option of the type the system in slot s watches
    ran,          \* systems that have run in the current frame
    buf,          \* buf[s]: the command buffer of system s
    panicked,     \* a command hit a missing entity and the app panicked
    events,       \* events of the collaborators and the application so far
    completed,    \* completed[e][T]: Option of the outcome the transport delivered
                  \* for the request of T outstanding on e (history)
    abandoned,    \* the <<e, T>> whose entity was removed while pending for T
                  \* (history)
    holder,       \* the result field of a TypedResponse the application reads
    holderType,   \* the type T of that TypedResponse<T>
    calls         \* what its parse() calls returned so far, in order

vars == <<spawned, alive, request, resp, err, marker, typed, unseenResp,
          unseenErr, sysType, ran, buf, panicked, events, completed, abandoned,
          holder, holderType, calls>>

world == <<spawned, alive, request, resp, err, marker, typed, unseenResp, unseenErr>>
sched == <<sysType, ran, buf, panicked, events>>
reader == <<holder, holderType, calls>>
\* What the collaborators and the application did to the requests: recorded
\* to state the properties, read by no action of the program.
history == <<completed, abandoned>>

Registered == {s \in Slots : IsSome(sysType[s])}
WatchersOf(T) == {s \in Slots : sysType[s] = Some(T)}
AtFrameBoundary == ran = {} /\ \A s \in Slots : buf[s] = <<>>

WorldInit ==
    /\ spawned = {}
    /\ alive = {}
    /\ request = [e \in Entities |-> FALSE]
    /\ resp = [e \in Entities |-> None]
    /\ err = [e \in Entities |-> None]
    /\ marker = [e \in Entities |-> [T \in Types |-> FALSE]]
    /\ typed = [e \in Entities |-> [T \in Types |-> None]]
    /\ unseenResp = [e \in Entities |-> {}]
    /\ unseenErr = [e \in Entities |-> {}]
    /\ sysType = [s \in Slots |-> None]
    /\ ran = {}
    /\ buf = [s \in Slots |-> <<>>]
    /\ panicked = FALSE
    /\ events = 0
    /\ completed = [e \in Entities |-> [T \in Types |-> None]]
    /\ abandoned = {}

Init ==
    /\ WorldInit
    /\ holder = Err("")
    /\ holderType = "u32"
    /\ calls = <<>>

\* ------------------------------------------------------------ registration
\* register_request_type::<T>(app): adds one handle_typed_response::<T>
\* system to the Update schedule.  Calling it again for the same T adds a
\* second system.  It takes the App under construction, so it is called
\* before the world holds any entity.  A system that has never run sees
\* every component as Added in its first run.
register_request_type(T) ==
    /\ ~panicked
    /\ AtFrameBoundary
    /\ spawned = {}
    /\ \E s \in Slots :
        /\ sysType[s] = None
        /\ \A r \in Slots : r < s => sysType[r] # None
        /\ sysType' = [sysType EXCEPT ![s] = Some(T)]
    /\ UNCHANGED <<world, ran, buf, panicked, events, reader, history>>

\* ------------------------------------------------ component insert / remove
\* World::insert of a carrier: a component the entity does not hold yet is
\* added with a fresh added tick (Added for every system until that system
\* runs); a component it already holds has its value replaced and keeps its
\* added tick.
InsertUnseen(unseen, present, e) ==
    IF present THEN unseen ELSE [unseen EXCEPT ![e] = Slots]

\* ------------------------------------------------- the issuing collaborator
\* RequestBundle::<T>::new(request), attached to an entity: HttpRequest and
\* RequestType<T> together.  Spawns the entity when it is a new one (ids are
\* allocated in order and never reused).
RequestBundle(e, T) ==
    /\ ~panicked
    /\ events < MaxEvents
    /\ \/ e \in alive
       \/ e \notin spawned /\ \A d \in Entities : d < e => d \in spawned
    /\ spawned' = spawned \cup {e}
    /\ alive' = alive \cup {e}
    /\ request' = [request EXCEPT ![e] = TRUE]
    /\ marker' = [marker EXCEPT ![e][T] = TRUE]
    /\ events' = events + 1
    /\ UNCHANGED <<resp, err, typed, unseenResp, unseenErr, sysType, ran, buf,
                   panicked, reader, history>>

\* ------------------------------------------------ the transport collaborator
\* The transport delivers an outcome to entity e: it is the outcome of every
\* request outstanding on e (every T whose RequestType<T> the entity holds).
Delivered(e, result) ==
    [completed EXCEPT ![e] = [T \in Types |-> IF marker[e][T] THEN Some(result)
                                              ELSE completed[e][T]]]

\* The transport attaches HttpResponse(payload) to an entity.
AttachHttpResponse(e, p) ==
    /\ ~panicked
    /\ events < MaxEvents
    /\ e \in alive
    /\ events' = events + 1
    /\ resp' = [resp EXCEPT ![e] = Some(p)]
    /\ unseenResp' = InsertUnseen(unseenResp, IsSome(resp[e]), e)
    /\ completed' = Delivered(e, Ok(p))
    /\ UNCHANGED <<spawned, alive, request, err, marker, typed, unseenErr,
                   sysType, ran, buf, panicked, reader, abandoned>>

\* The transport attaches HttpResponseError(message) to an entity.
AttachHttpResponseError(e, m) ==
    /\ ~panicked
    /\ events < MaxEvents
    /\ e \in alive
    /\ events' = events + 1
    /\ err' = [err EXCEPT ![e] = Some(m)]
    /\ unseenErr' = InsertUnseen(unseenErr, IsSome(err[e]), e)
    /\ completed' = Delivered(e, Err(m))
    /\ UNCHANGED <<spawned, alive, request, resp, marker, typed, unseenResp,
                   sysType, ran, buf, panicked, reader, abandoned>>

\* ------------------------------------------------------- the application
\* The application removes RequestType<T> from an entity (cancellation).
RemoveRequestType(e, T) ==
    /\ ~panicked
    /\ e \in alive
    /\ marker[e][T]
    /\ events < MaxEvents
    /\ events' = events + 1
    /\ marker' = [marker EXCEPT ![e][T] = FALSE]
    /\ completed' = [completed EXCEPT ![e][T] = None]
    /\ UNCHANGED <<spawned, alive, request, resp, err, typed, unseenResp,
                   unseenErr, sysType, ran, buf, panicked, reader, abandoned>>

\* The application despawns an entity: all its components go with it.
Despawn(e) ==
    /\ ~panicked
    /\ e \in alive
    /\ alive' = alive \ {e}
    /\ request' = [request EXCEPT ![e] = FALSE]
    /\ resp' = [resp EXCEPT ![e] = None]
    /\ err' = [err EXCEPT ![e] = None]
    /\ marker' = [marker EXCEPT ![e] = [T \in Types |-> FALSE]]
    /\ typed' = [typed EXCEPT ![e] = [T \in Types |-> None]]
    /\ unseenResp' = [unseenResp EXCEPT ![e] = {}]
    /\ unseenErr' = [unseenErr EXCEPT ![e] = {}]
    /\ events < MaxEvents
    /\ events' = events + 1
    /\ completed' = [completed EXCEPT ![e] = [T \in Types |-> None]]
    /\ abandoned' = abandoned \cup {<<e, T>> : T \in {U \in Types : marker[e][U]}}
    /\ UNCHANGED <<spawned, sysType, ran, buf, panicked, reader>>

\* ------------------------------------------------------------- the watcher
\* The success query without its Added<HttpResponse> filter (level-triggered).
TypedRequestQuery_LevelTriggered(s, T) ==
    {e \in alive : IsSome(resp[e]) /\ marker[e][T]}

\* The success query matching a RequestType of any type.
TypedRequestQuery_AnyType(s, T) ==
    {e \in alive : IsSome(resp[e]) /\ (\E U \in Types : marker[e][U])
                      /\ s \in unseenResp[e]}

\* The success query without its RequestType<T> term.
TypedRequestQuery_NoMarker(s, T) ==
    {e \in alive : IsSome(resp[e]) /\ s \in unseenResp[e]}

\* The success query taking a carrier as added only while no system at all
\* has run since the carrier was attached.
TypedRequestQuery_NoRunSince(s, T) ==
    {e \in alive : IsSome(resp[e]) /\ marker[e][T] /\ unseenResp[e] = Slots}

\* Query<TypedRequestQuery<T>, Added<HttpResponse>> of system s: entities
\* holding HttpResponse and RequestType<T> whose HttpResponse is Added since
\* the system's previous run.
TypedRequestQuery(s, T) ==
    {e \in alive : IsSome(resp[e]) /\ marker[e][T] /\ s \in unseenResp[e]}

\* The failure query without its RequestType<T> term.
TypedFailedRequestQuery_NoMarker(s, T) ==
    {e \in alive : IsSome(err[e]) /\ s \in unseenErr[e]}

\* Query<TypedFailedRequestQuery<T>, Added<HttpResponseError>> of system s.
TypedFailedRequestQuery(s, T) ==
    {e \in alive : IsSome(err[e]) /\ marker[e][T] /\ s \in unseenErr[e]}

\* An insert of a TypedResponse that is not specialised to T: every result
\* type shares one holder.
InsertTypedResponse_Untyped(e, T, result) ==
    [op |-> "insert", entity |-> e, ty |-> "u32", result |-> result]

\* commands.entity(e).insert(TypedResponse::<T> { result, .. })
InsertTypedResponse(e, T, result) ==
    [op |-> "insert", entity |-> e, ty |-> T, result |-> result]

\* A remove of a RequestType that is not specialised to T.
RemoveMarker_Untyped(e, T) ==
    [op |-> "remove", entity |-> e, ty |-> "u32", result |-> Err("")]

\* commands.entity(e).remove::<RequestType<T>>()
RemoveMarker(e, T) ==
    [op |-> "remove", entity |-> e, ty |-> T, result |-> Err("")]

\* The first loop inserting an empty response in place of the carrier's.
SuccessCommands_EmptyPayload(e, T) ==
    <<InsertTypedResponse(e, T, Ok(NoResponse)), RemoveMarker(e, T)>>

\* The first loop without its remove::<RequestType<T>>().
SuccessCommands_NoRemove(e, T) ==
    <<InsertTypedResponse(e, T, Ok(Unwrap(resp[e])))>>

\* What the first loop does for one entity.
SuccessCommands(e, T) ==
    <<InsertTypedResponse(e, T, Ok(Unwrap(resp[e]))), RemoveMarker(e, T)>>

\* The second loop dropping the carrier's message.
FailureCommands_NoMessage(e, T) ==
    <<InsertTypedResponse(e, T, Err("")), RemoveMarker(e, T)>>

\* The second loop without its remove::<RequestType<T>>().
FailureCommands_NoRemove(e, T) ==
    <<InsertTypedResponse(e, T, Err(Unwrap(err[e])))>>

\* What the second loop does for one entity.
FailureCommands(e, T) ==
    <<InsertTypedResponse(e, T, Err(Unwrap(err[e]))), RemoveMarker(e, T)>>

\* for entry in request_tasks.iter() { ... }, from entity e on.
RECURSIVE SuccessPass(_, _, _)
SuccessPass(s, T, e) ==
    IF e > NumEntities THEN <<>>
    ELSE (IF e \in TypedRequestQuery(s, T) THEN SuccessCommands(e, T) ELSE <<>>)
         \o SuccessPass(s, T, e + 1)

\* for entry in failed_tasks.iter() { ... }, from entity e on.
RECURSIVE FailurePass(_, _, _)
FailurePass(s, T, e) ==
    IF e > NumEntities THEN <<>>
    ELSE (IF e \in TypedFailedRequestQuery(s, T) THEN FailureCommands(e, T) ELSE <<>>)
         \o FailurePass(s, T, e + 1)

\* A watcher whose queries are not specialised to its own T.
QueuedCommands_AllTypes(s, T) ==
    SuccessPass(s, "u32", 1) \o SuccessPass(s, "bool", 1)
        \o FailurePass(s, "u32", 1) \o FailurePass(s, "bool", 1)

\* A watcher whose failure loop comes before its success loop.
QueuedCommands_FailureFirst(s, T) == FailurePass(s, T, 1) \o SuccessPass(s, T, 1)

\* The commands one run of handle_typed_response::<T> queues.
QueuedCommands(s, T) == SuccessPass(s, T, 1) \o FailurePass(s, T, 1)

\* One run of the system in slot s: it queues its commands, and its last-run
\* tick advances, so the carriers present now are no longer Added for it.
\* The systems of a frame run in the order of their slots.
handle_typed_response(s) ==
    /\ ~panicked
    /\ IsSome(sysType[s])
    /\ s \notin ran
    /\ \A r \in Slots : r < s => r \in ran
    /\ buf' = [buf EXCEPT ![s] = QueuedCommands(s, Unwrap(sysType[s]))]
    /\ ran' = ran \cup {s}
    /\ unseenResp' = [e \in Entities |-> unseenResp[e] \ {s}]
    /\ unseenErr' = [e \in Entities |-> unseenErr[e] \ {s}]
    /\ UNCHANGED <<spawned, alive, request, resp, err, marker, typed, sysType,
                   panicked, events, reader, history>>

\* ------------------------------------------------------- deferred commands
\* The command buffers of the frame, in the order the schedule applies them.
RECURSIVE BuffersFrom(_)
BuffersFrom(s) == IF s > MaxWatchers THEN <<>> ELSE buf[s] \o BuffersFrom(s + 1)

FrameCommands == BuffersFrom(1)

\* A remove that takes every RequestType marker off the entity, whatever
\* its type parameter.
ApplyCommand_RemoveAllMarkers(w, c) ==
    IF c.entity \notin alive THEN w
    ELSE IF c.op = "insert"
         THEN [w EXCEPT !.typed[c.entity][c.ty] = Some(c.result)]
         ELSE [w EXCEPT !.marker[c.entity] = [U \in Types |-> FALSE]]

\* The effect of one command on the markers and the typed responses of the
\* entities that exist (a command for a missing entity has no effect here).
ApplyCommand(w, c) ==
    IF c.entity \notin alive THEN w
    ELSE IF c.op = "insert"
         THEN [w EXCEPT !.typed[c.entity][c.ty] = Some(c.result)]
         ELSE [w EXCEPT !.marker[c.entity][c.ty] = FALSE]

RECURSIVE ApplyCommands(_, _)
ApplyCommands(w, cmds) ==
    IF cmds = <<>> THEN w
    ELSE ApplyCommands(ApplyCommand(w, Head(cmds)), Tail(cmds))

\* An insert command whose entity no longer exists.
InsertOnMissingEntity ==
    \E i \in 1..Len(FrameCommands) :
        FrameCommands[i].op = "insert" /\ FrameCommands[i].entity \notin alive

\* End of the frame: every system has run, the buffers are applied in one
\* exclusive step.  An insert for a despawned entity panics, or is ignored,
\* depending on the version of the ECS the crate is built against.
ApplyDeferred ==
    /\ ~panicked
    /\ ran = Registered
    /\ ran # {}
    /\ \/ /\ InsertOnMissingEntity
          /\ panicked' = TRUE
          /\ UNCHANGED <<world, sysType, ran, buf, events, completed>>
       \/ /\ LET w == ApplyCommands([marker |-> marker, typed |-> typed], FrameCommands)
             IN /\ marker' = w.marker
                /\ typed' = w.typed
                /\ completed' = [e \in Entities |-> [T \in Types |->
                                    IF w.marker[e][T] THEN completed[e][T] ELSE None]]
          /\ ran' = {}
          /\ buf' = [s \in Slots |-> <<>>]
          /\ UNCHANGED <<spawned, alive, request, resp, err, unseenResp, unseenErr,
                         sysType, panicked, events>>
    /\ UNCHANGED <<reader, abandoned>>

\* ---------------------------------------------------------- specification
Next ==
    \/ \E T \in Types : register_request_type(T)
    \/ \E e \in Entities, T \in Types : RequestBundle(e, T)
    \/ \E e \in Entities, p \in Payloads : AttachHttpResponse(e, p)
    \/ \E e \in Entities, m \in Messages : AttachHttpResponseError(e, m)
    \/ \E e \in Entities, T \in Types : RemoveRequestType(e, T)
    \/ \E e \in Entities : Despawn(e)
    \/ \E s \in Slots : handle_typed_response(s)
    \/ ApplyDeferred

Spec == Init /\ [][Next]_vars

\* ------------------------------------------------- reading a typed response
\* The texts a payload is drawn from when the decode accessor is exercised.
TxtTexts ==
    { <<"4", "2">>, <<"0">>, <<"7">>, <<"1", "0", "0">>,
      <<" ", "4", "2", "\n">>, <<"0", "4", "2">>, <<"-", "1">>, <<"-", "0">>,
      <<"4", ".", "2">>, <<"1", "e", "2">>, <<"4", " ", "2">>, <<"4", "2", "x">>,
      <<"\"", "4", "2", "\"">>, <<>>, <<" ">>,
      <<"2", "1", "4", "7", "4", "8", "3", "6", "4", "7">>,
      <<"4", "2", "9", "4", "9", "6", "7", "2", "9", "6">>,
      <<"1", "2", "3", "4", "5", "6", "7", "8", "9", "0", "1">>,
      <<"t", "r", "u", "e">>, <<"f", "a", "l", "s", "e">>,
      <<" ", "t", "r", "u", "e", " ">>, <<"t", "r", "u">>,
      <<"t", "r", "u", "e", "x">>, <<"T", "r", "u", "e">>,
      <<"n", "u", "l", "l">>, <<"n", "o", "t", " ", "j", "s", "o", "n">> }

\* The TypedResponse results the application may find on an entity.
Holders ==
    {Ok(Response(Some(t))) : t \in TxtTexts} \cup {Ok(Response(None))}
        \cup {Err(m) : m \in {"timeout", "42", "true"}}

InitParse ==
    /\ WorldInit
    /\ holder \in Holders
    /\ holderType \in Types
    /\ calls = <<>>

\* A parse() that takes the result out of the holder (as mem::replace on a
\* &mut self would), leaving an Err behind.
CallParse_TakesResult ==
    /\ Len(calls) < MaxCalls
    /\ calls' = Append(calls, parse(holder, holderType))
    /\ holder' = Err("")
    /\ UNCHANGED <<holderType, world, sched, history>>

\* The application calls parse() on the holder; parse takes &self, the
\* holder is not written.
CallParse ==
    /\ Len(calls) < MaxCalls
    /\ calls' = Append(calls, parse(holder, holderType))
    /\ UNCHANGED <<holder, holderType, world, sched, history>>

NextParse == CallParse

SpecParse == InitParse /\ [][NextParse]_vars

\* ======================================================================
\* Properties
\* ======================================================================

\* The step is a run of the system in slot s.
RunsNow(s) == s \notin ran /\ s \in ran'

\* The step applies the command buffers of the frame.
AppliesNow == ran # {} /\ ran' = {}

\* The results of the insert commands queued in this frame for (e, T).
InsertedResults(e, T) ==
    {FrameCommands[i].result :
        i \in {k \in 1..Len(FrameCommands) :
                 /\ FrameCommands[k].op = "insert"
                 /\ FrameCommands[k].entity = e
                 /\ FrameCommands[k].ty = T}}

\* The buffer b holds the two commands of pair, one right after the other.
QueuedPair(b, pair) ==
    \E i \in 1..(Len(b) - 1) : b[i] = pair[1] /\ b[i + 1] = pair[2]

\* A command for (e, T) is waiting in some buffer.
Pending(e, T) ==
    \E s \in Slots : \E i \in 1..Len(buf[s]) :
        buf[s][i].entity = e /\ buf[s][i].ty = T

\* C1: an entity that holds RequestType<T> and whose HttpResponse is
\* freshly added for the watcher of T gets, from that watcher's run, the
\* queued pair insert TypedResponse<T>{Ok(payload of the carrier)} / remove
\* RequestType<T>; and when the frame's commands take effect, an entity for
\* which only success results were queued holds TypedResponse<T> with the
\* last queued Ok(payload) and no RequestType<T>.  (The success carrier is
\* the outcome of the completion: no failure result is queued for the same
\* entity and type in the frame.)
C1_SuccessFinalized ==
    [][ /\ \A s \in Slots, e \in Entities :
            (/\ RunsNow(s)
             /\ e \in alive
             /\ marker[e][Unwrap(sysType[s])]
             /\ IsSome(resp[e])
             /\ s \in unseenResp[e])
            => QueuedPair(buf'[s],
                          <<InsertTypedResponse(e, Unwrap(sysType[s]), Ok(Unwrap(resp[e]))),
                            RemoveMarker(e, Unwrap(sysType[s]))>>)
        /\ \A e \in Entities, T \in Types :
            (/\ AppliesNow
             /\ e \in alive
             /\ InsertedResults(e, T) # {}
             /\ \A r \in InsertedResults(e, T) : r.ok)
            => /\ IsSome(typed'[e][T])
               /\ Unwrap(typed'[e][T]) \in InsertedResults(e, T)
               /\ Unwrap(typed'[e][T]).ok
               /\ ~marker'[e][T]
      ]_vars

\* C1 witness: a finalized success, the carrier still on the entity.
C1_Witness ==
    \E e \in alive :
        /\ IsSome(resp[e])
        /\ err[e] = None
        /\ typed[e]["u32"] = Some(Ok(Unwrap(resp[e])))
        /\ ~marker[e]["u32"]
        /\ AtFrameBoundary

\* C2: an entity that holds RequestType<T> and whose HttpResponseError is
\* freshly added for the watcher of T gets, from that watcher's run, the
\* queued pair insert TypedResponse<T>{Err(message of the carrier)} / remove
\* RequestType<T>; when the frame's commands take effect, an entity for
\* which only failure results were queued holds TypedResponse<T> with that
\* Err(message), verbatim, holds no RequestType<T>, and parse() on the
\* holder returns None, whatever HttpResponse the entity holds.
C2_FailureFinalized ==
    [][ /\ \A s \in Slots, e \in Entities :
            (/\ RunsNow(s)
             /\ e \in alive
             /\ marker[e][Unwrap(sysType[s])]
             /\ IsSome(err[e])
             /\ s \in unseenErr[e])
            => QueuedPair(buf'[s],
                          <<InsertTypedResponse(e, Unwrap(sysType[s]), Err(Unwrap(err[e]))),
                            RemoveMarker(e, Unwrap(sysType[s]))>>)
        /\ \A e \in Entities, T \in Types :
            (/\ AppliesNow
             /\ e \in alive
             /\ InsertedResults(e, T) # {}
             /\ \A r \in InsertedResults(e, T) : ~r.ok)
            => /\ IsSome(typed'[e][T])
               /\ Unwrap(typed'[e][T]) \in InsertedResults(e, T)
               /\ ~Unwrap(typed'[e][T]).ok
               /\ Unwrap(typed'[e][T]).message \in Messages
               /\ ~marker'[e][T]
               /\ parse(Unwrap(typed'[e][T]), T) = None
      ]_vars

\* C2 witness: a finalized failure on an entity that also holds a success
\* payload whose text would decode.
C2_Witness ==
    \E e \in alive :
        /\ resp[e] = Some(Response(Some(Txt42)))
        /\ IsSome(err[e])
        /\ typed[e]["u32"] = Some(Err(Unwrap(err[e])))
        /\ ~marker[e]["u32"]
        /\ AtFrameBoundary

\* The insert commands of buffer b for entity e with an Ok / an Err result.
QueuesOk(b, e) ==
    \E i \in 1..Len(b) : b[i].op = "insert" /\ b[i].entity = e /\ b[i].result.ok
QueuesErr(b, e) ==
    \E i \in 1..Len(b) : b[i].op = "insert" /\ b[i].entity = e /\ ~b[i].result.ok

\* C3: detection is edge-triggered.  A run of a watcher queues the finalize
\* of an entity for a carrier exactly when the entity holds the marker and
\* the carrier was added since the watcher's previous run; the run makes
\* every carrier observed by that watcher; and a carrier the watcher has
\* observed stays observed for as long as it stays on the entity, also when
\* its value is replaced.  So one attachment of a carrier makes the watcher
\* perform the finalize step once and never again.
C3_ExactlyOnce ==
    [][ \A s \in Slots, e \in Entities :
          /\ RunsNow(s) =>
               /\ QueuesOk(buf'[s], e) <=>
                    (e \in alive /\ marker[e][Unwrap(sysType[s])]
                        /\ IsSome(resp[e]) /\ s \in unseenResp[e])
               /\ QueuesErr(buf'[s], e) <=>
                    (e \in alive /\ marker[e][Unwrap(sysType[s])]
                        /\ IsSome(err[e]) /\ s \in unseenErr[e])
               /\ s \notin unseenResp'[e]
               /\ s \notin unseenErr'[e]
          /\ (~RunsNow(s) /\ ~AppliesNow) => buf'[s] = buf[s]
          /\ (IsSome(resp[e]) /\ s \notin unseenResp[e] /\ IsSome(resp'[e]))
               => s \notin unseenResp'[e]
          /\ (IsSome(err[e]) /\ s \notin unseenErr[e] /\ IsSome(err'[e]))
               => s \notin unseenErr'[e]
      ]_vars

\* C3 witness: a finalized entity whose carrier every watcher has observed,
\* with the watcher having run again since (a new frame is under way).
C3_Witness ==
    \E e \in alive :
        /\ IsSome(resp[e])
        /\ IsSome(typed[e]["u32"])
        /\ ~marker[e]["u32"]
        /\ \E s \in WatchersOf("u32") :
              s \in ran /\ s \notin unseenResp[e] /\ buf[s] = <<>>

\* (e, T) is finalized: the holder is present, the marker is absent and no
\* command for the pair is waiting.
Finalized(e, T) ==
    e \in alive /\ IsSome(typed[e][T]) /\ ~marker[e][T] /\ ~Pending(e, T)

\* C4: Finalized is terminal.  As long as no fresh RequestType<T> is
\* attached to the entity, no step changes the result of its
\* TypedResponse<T> or queues another transition for it, whatever carriers
\* are attached afterwards.
C4_FinalizedTerminal ==
    [][ \A e \in Entities, T \in Types :
          (Finalized(e, T) /\ e \in alive' /\ ~marker'[e][T])
          => (typed'[e][T] = typed[e][T] /\ Finalized(e, T)')
      ]_vars

\* C4 witness: a success was finalized, a failure carrier was attached
\* later, the watcher has run since, and the result is still the success.
C4_Witness ==
    \E e \in alive :
        /\ Finalized(e, "u32")
        /\ Unwrap(typed[e]["u32"]).ok
        /\ IsSome(err[e])
        /\ WatchersOf("u32") # {}
        /\ unseenErr[e] \cap WatchersOf("u32") = {}
        /\ AtFrameBoundary

\* C5: type isolation.  A watcher for T queues commands only for type T and
\* only for entities that hold RequestType<T>; the holder TypedResponse<T>
\* of an entity changes, and its RequestType<T> is removed by the core,
\* only through commands that a watcher of T queued.
C5_TypeIsolation ==
    [][ /\ \A s \in Slots :
            RunsNow(s) =>
                \A i \in 1..Len(buf'[s]) :
                    /\ buf'[s][i].ty = Unwrap(sysType[s])
                    /\ marker[buf'[s][i].entity][buf'[s][i].ty]
        /\ \A e \in Entities, T \in Types :
            /\ (e \in alive' /\ typed'[e][T] # typed[e][T])
                 => (AppliesNow /\ InsertedResults(e, T) # {})
            /\ (e \in alive' /\ marker[e][T] /\ ~marker'[e][T] /\ events' = events)
                 => (AppliesNow /\ Pending(e, T))
      ]_vars

\* C5 witness: watchers for both types have run over an entity that was
\* issued for u32 only and holds a carrier: it is finalized for u32 and has
\* nothing for bool.
C5_Witness ==
    \E e \in alive :
        /\ WatchersOf("u32") # {}
        /\ WatchersOf("bool") # {}
        /\ IsSome(resp[e])
        /\ unseenResp[e] = {}
        /\ IsSome(typed[e]["u32"])
        /\ typed[e]["bool"] = None
        /\ AtFrameBoundary

\* (e, T) is idle: the entity holds neither the marker nor the holder of T
\* and no command for the pair is waiting.
Idle(e, T) ==
    e \in alive /\ ~marker[e][T] /\ typed[e][T] = None /\ ~Pending(e, T)

\* C6: cancellation by marker removal.  Once the marker is gone from an
\* entity that has no TypedResponse<T> and no finalize under way, no
\* TypedResponse<T> is inserted on it, whatever carriers are attached
\* later, for as long as no fresh RequestType<T> is attached.
C6_CancelledStaysEmpty ==
    [][ \A e \in Entities, T \in Types :
          (Idle(e, T) /\ e \in alive' /\ ~marker'[e][T]) => Idle(e, T)'
      ]_vars

\* C6 witness: an entity whose marker was removed, which then received a
\* carrier that the registered watcher has observed, and which holds no
\* typed response.
C6_Witness ==
    \E e \in alive :
        /\ \A T \in Types : Idle(e, T)
        /\ IsSome(resp[e])
        /\ WatchersOf("u32") # {}
        /\ WatchersOf("bool") # {}
        /\ unseenResp[e] = {}
        /\ AtFrameBoundary

\* C7: a type T without a registered watcher.  No TypedResponse<T> exists
\* on any entity and no command for T is ever queued; RequestType<T> leaves
\* an entity only by an act of the application (removal, despawn); and with
\* no watcher registered at all the app never panics.
C7_UnregisteredStaysPending ==
    [][ \A T \in Types :
          WatchersOf(T) = {} =>
            /\ \A e \in Entities :
                /\ typed'[e][T] = None
                /\ ~Pending(e, T)'
                /\ (marker[e][T] /\ events' = events) => marker'[e][T]
            /\ (Registered' = {} => ~panicked')
      ]_vars

\* C7 witness: bool is not registered, u32 is; an entity pending for bool
\* holds a carrier that every registered watcher has observed.
C7_Witness ==
    \E e \in alive :
        /\ WatchersOf("bool") = {}
        /\ Registered # {}
        /\ marker[e]["bool"]
        /\ IsSome(resp[e])
        /\ unseenResp[e] \cap Registered = {}
        /\ typed[e]["bool"] = None
        /\ AtFrameBoundary

RECURSIVE Numeral(_)
Numeral(n) ==
    IF n < 10 THEN <<DigitChars[n + 1]>>
    ELSE Numeral(n \div 10) \o <<DigitChars[(n % 10) + 1]>>

\* The canonical JSON text of a value of type T.
Encode(T, v) ==
    IF T = "u32" THEN Numeral(v)
    ELSE IF v THEN <<"t", "r", "u", "e">> ELSE <<"f", "a", "l", "s", "e">>

\* A text without its leading and trailing JSON whitespace.
RECURSIVE TrimLeft(_)
TrimLeft(t) == IF t # <<>> /\ IsWs(Head(t)) THEN TrimLeft(Tail(t)) ELSE t
RECURSIVE TrimRight(_)
TrimRight(t) ==
    IF t # <<>> /\ IsWs(t[Len(t)]) THEN TrimRight(SubSeq(t, 1, Len(t) - 1)) ELSE t
Trim(t) == TrimRight(TrimLeft(t))

\* The values of T the properties range over.
ValuesOf(T) ==
    IF T = "u32" THEN (0..120) \cup {2147483647} ELSE {TRUE, FALSE}

\* The values of T the round trip through the pipeline ranges over.
RoundTripValues(T) ==
    IF T = "u32" THEN {0, 7, 42, 100} ELSE {TRUE, FALSE}

\* text decodes as the value v of T: it is the canonical JSON text of v,
\* possibly surrounded by whitespace.
DecodesAs(text, T, v) == Trim(text) = Encode(T, v)

\* C9: parse() returns Some(v) exactly when the result is Ok, the payload
\* has a text and the text decodes as the value v of T; it returns None
\* when the result is Err, when the payload has no text, and when the text
\* does not decode; the result field is what it was before the call.
C9_ParseCases ==
    \A i \in 1..Len(calls) :
        LET out == calls[i]
            text == holder.response.text
        IN  /\ ~holder.ok => out = None
            /\ (holder.ok /\ text = None) => out = None
            /\ (holder.ok /\ IsSome(text)) =>
                 /\ \A v \in ValuesOf(holderType) :
                        out = Some(v) <=> DecodesAs(Unwrap(text), holderType, v)
                 /\ IsSome(out) => Unwrap(out) \in ValuesOf(holderType)

\* C9 witness: parse() was called on an Ok holder whose text is not JSON
\* and returned None.
C9_Witness ==
    /\ holder = Ok(Response(Some(TxtNotJson)))
    /\ holderType = "u32"
    /\ Len(calls) > 0
    /\ calls[1] = None

\* C10: round trip through the pipeline.  When a watcher of T runs over an
\* entity that holds RequestType<T> and a freshly added HttpResponse whose
\* payload text is the JSON encoding of a value v of T, the TypedResponse<T>
\* it queues for the entity is one on which parse() returns Some(v); and
\* when the commands of the frame take effect and the results queued for
\* (e, T) are Ok results with such a text, parse() on the entity's
\* TypedResponse<T> returns Some(v).
C10_RoundTrip ==
    [][ /\ \A s \in Slots :
            RunsNow(s) =>
              \A e \in alive :
                (/\ marker[e][Unwrap(sysType[s])]
                 /\ IsSome(resp[e])
                 /\ s \in unseenResp[e]
                 /\ IsSome(Unwrap(resp[e]).text))
                => \A v \in RoundTripValues(Unwrap(sysType[s])) :
                     Unwrap(Unwrap(resp[e]).text) = Encode(Unwrap(sysType[s]), v)
                     => \E i \in 1..Len(buf'[s]) :
                          /\ buf'[s][i].op = "insert"
                          /\ buf'[s][i].entity = e
                          /\ parse(buf'[s][i].result, Unwrap(sysType[s])) = Some(v)
        /\ AppliesNow =>
              \A e \in alive, T \in Types :
                (/\ InsertedResults(e, T) # {}
                 /\ \A r \in InsertedResults(e, T) : r.ok)
                => /\ IsSome(typed'[e][T])
                   /\ \A v \in RoundTripValues(T) :
                        (\A r \in InsertedResults(e, T) :
                             r.response.text = Some(Encode(T, v)))
                        => parse(Unwrap(typed'[e][T]), T) = Some(v)
      ]_vars

\* C10 witness: the carrier text "42" finalized for u32 decodes to 42, and
\* the carrier text "true" finalized for bool decodes to TRUE.
C10_Witness ==
    \E e \in alive, d \in alive :
        /\ IsSome(typed[e]["u32"])
        /\ Unwrap(typed[e]["u32"]) = Ok(Response(Some(Encode("u32", 42))))
        /\ parse(Unwrap(typed[e]["u32"]), "u32") = Some(42)
        /\ IsSome(typed[d]["bool"])
        /\ Unwrap(typed[d]["bool"]) = Ok(Response(Some(Encode("bool", TRUE))))
        /\ parse(Unwrap(typed[d]["bool"]), "bool") = Some(TRUE)
        /\ AtFrameBoundary

\* An insert command for entity e is waiting in some buffer.
InsertQueuedFor(e) ==
    \E i \in 1..Len(FrameCommands) :
        FrameCommands[i].op = "insert" /\ FrameCommands[i].entity = e

\* C11: removing an entity while it is pending for T abandons the work:
\* the entity never exists again, no TypedResponse<T> exists for it, and the
\* removal leads to no error state (the app does not panic on a command
\* queued for the removed entity).
C11_RemovalAbandons ==
    \A pair \in abandoned :
        /\ pair[1] \notin alive
        /\ typed[pair[1]][pair[2]] = None
        /\ ~(panicked /\ InsertQueuedFor(pair[1]))

HasCarrier(e) == IsSome(resp[e]) \/ IsSome(err[e])

\* Completed-Raw: raw carrier present, marker still present.
CompletedRaw(e, T) == e \in alive /\ marker[e][T] /\ HasCarrier(e)

\* The buffer b holds an insert and a remove for (e, T).
QueuesFinalize(b, e, T) ==
    /\ \E i \in 1..Len(b) : b[i].op = "insert" /\ b[i].entity = e /\ b[i].ty = T
    /\ \E i \in 1..Len(b) : b[i].op = "remove" /\ b[i].entity = e /\ b[i].ty = T

\* C13: Completed-Raw is transient, whatever the order in which the marker
\* and the carrier became present: an entity that holds a raw carrier and
\* RequestType<T> when the watcher of T runs has its finalize queued by that
\* run, and an entity whose finalize is queued is Finalized when the tick's
\* commands have taken effect.
C13_CompletedRawTransient ==
    [][ /\ \A s \in Slots, e \in Entities :
            (RunsNow(s) /\ CompletedRaw(e, Unwrap(sysType[s])))
            => QueuesFinalize(buf'[s], e, Unwrap(sysType[s]))
        /\ \A e \in Entities, T \in Types :
            (AppliesNow /\ e \in alive /\ Pending(e, T))
            => IsSome(typed'[e][T]) /\ ~marker'[e][T]
      ]_vars

\* C14: every request issued by attaching RequestBundle<T>, once the
\* transport has delivered its outcome, is finalized with that outcome, also
\* when the bundle was attached to an entity that is already Finalized and
\* still carries the carrier of an earlier request: the next run of the
\* watcher of T queues insert TypedResponse<T>{that outcome} / remove
\* RequestType<T>, and when the tick's commands have taken effect the entity
\* holds one of the results queued for it and no RequestType<T>.
C14_ReissueFinalized ==
    [][ /\ \A s \in Slots, e \in Entities :
            (/\ RunsNow(s)
             /\ e \in alive
             /\ IsSome(completed[e][Unwrap(sysType[s])]))
            => QueuedPair(buf'[s],
                          <<InsertTypedResponse(e, Unwrap(sysType[s]),
                                                Unwrap(completed[e][Unwrap(sysType[s])])),
                            RemoveMarker(e, Unwrap(sysType[s]))>>)
        /\ \A e \in Entities, T \in Types :
            (AppliesNow /\ e \in alive /\ InsertedResults(e, T) # {})
            => /\ IsSome(typed'[e][T])
               /\ Unwrap(typed'[e][T]) \in InsertedResults(e, T)
               /\ ~marker'[e][T]
      ]_vars

\* The positions of buffer b that insert a TypedResponse<T> for entity e.
InsertsAt(b, e, T) ==
    {i \in 1..Len(b) : b[i].op = "insert" /\ b[i].entity = e /\ b[i].ty = T}

\* The run that filled buffer b saw both carriers of e freshly added.
QueuedBoth(b, e, T) ==
    /\ \E i \in InsertsAt(b, e, T) : b[i].result.ok
    /\ \E i \in InsertsAt(b, e, T) : ~b[i].result.ok

\* C15: when HttpResponse and HttpResponseError are both freshly added for
\* the watcher of T on an entity holding RequestType<T>, the run queues the
\* insert of Err(message of the failure carrier) after the insert of
\* Ok(payload), each with its remove; and when the tick's commands have taken
\* effect, an entity whose carriers were both fresh for the runs that queued
\* its finalize holds TypedResponse<T> with that Err, never the Ok, and no
\* RequestType<T>.
C15_BothCarriersErrWins ==
    [][ /\ \A s \in Slots, e \in Entities :
            (/\ RunsNow(s)
             /\ e \in alive
             /\ marker[e][Unwrap(sysType[s])]
             /\ IsSome(resp[e]) /\ s \in unseenResp[e]
             /\ IsSome(err[e]) /\ s \in unseenErr[e])
            => LET T == Unwrap(sysType[s])
                   at == InsertsAt(buf'[s], e, T)
               IN  /\ \E i, j \in at :
                        /\ i < j
                        /\ buf'[s][i].result = Ok(Unwrap(resp[e]))
                        /\ buf'[s][j].result = Err(Unwrap(err[e]))
                        /\ \A k \in at : k <= j
                   /\ QueuesFinalize(buf'[s], e, T)
        /\ \A e \in Entities, T \in Types :
            (/\ AppliesNow
             /\ e \in alive
             /\ \E s \in Slots : QueuedBoth(buf[s], e, T)
             /\ \A s \in Slots : InsertsAt(buf[s], e, T) # {} => QueuedBoth(buf[s], e, T))
            => /\ IsSome(typed'[e][T])
               /\ ~Unwrap(typed'[e][T]).ok
               /\ Unwrap(typed'[e][T]) \in InsertedResults(e, T)
               /\ Unwrap(typed'[e][T]).message \in Messages
               /\ ~marker'[e][T]
      ]_vars

\* C15 witness: a run has queued both results for an entity, and the frame
\* is ready to apply them.
C15_Witness ==
    /\ ran = Registered
    /\ ~panicked
    /\ \E s \in Slots, e \in alive :
        /\ QueuedBoth(buf[s], e, "u32")
        /\ IsSome(resp[e])
        /\ IsSome(err[e])

\* A carrier of e is freshly added for the system in slot s.
FreshCarrier(s, e) ==
    \/ IsSome(resp[e]) /\ s \in unseenResp[e]
    \/ IsSome(err[e]) /\ s \in unseenErr[e]

\* C16: frame of the watcher.  A run of handle_typed_response::<T> writes
\* nothing to the world and queues commands only for TypedResponse<T> and
\* RequestType<T> of entities that hold RequestType<T> and a freshly added
\* carrier; it touches no other system's buffer.  When the commands take
\* effect, no entity is created or destroyed, HttpRequest, HttpResponse and
\* HttpResponseError are as before on every entity, and a RequestType<U> or
\* TypedResponse<U> changes only on an entity for which a watcher of U queued
\* a command.
C16_WatcherFrame ==
    [][ /\ \A s \in Slots :
            RunsNow(s)
            => /\ UNCHANGED <<spawned, alive, request, resp, err, marker, typed>>
               /\ \A r \in Slots \ {s} : buf'[r] = buf[r]
               /\ \A i \in 1..Len(buf'[s]) :
                    /\ buf'[s][i].ty = Unwrap(sysType[s])
                    /\ buf'[s][i].entity \in alive
                    /\ marker[buf'[s][i].entity][Unwrap(sysType[s])]
                    /\ FreshCarrier(s, buf'[s][i].entity)
        /\ (AppliesNow \/ panicked' # panicked)
            => /\ UNCHANGED <<spawned, alive, request, resp, err>>
               /\ \A e \in Entities, U \in Types :
                    (marker'[e][U] # marker[e][U] \/ typed'[e][U] # typed[e][U])
                    => /\ e \in alive
                       /\ \E s \in WatchersOf(U) : \E i \in 1..Len(buf[s]) :
                            buf[s][i].entity = e /\ buf[s][i].ty = U
      ]_vars

\* C16 witness: an entity finalized for u32 that still holds its carrier,
\* its HttpRequest and the marker of another type, next to a second entity
\* that is still pending.
C16_Witness ==
    \E e, d \in alive :
        /\ e # d
        /\ IsSome(typed[e]["u32"])
        /\ ~marker[e]["u32"]
        /\ marker[e]["bool"]
        /\ typed[e]["bool"] = None
        /\ HasCarrier(e)
        /\ request[e]
        /\ marker[d]["u32"]
        /\ typed[d]["u32"] = None
        /\ AtFrameBoundary

\* The result a watcher makes of a carrier's value.
OkOf(payload) == Ok(payload)
ErrOf(message) == Err(message)

\* The steps of one kind of carrier on entity e: car / carNext its value
\* before and after the step, un / unNext the systems it is fresh for, other
\* the carrier of the other kind, Res the result made of its value.
CarrierSteps(e, car, carNext, un, unNext, other, Res(_)) ==
    /\ (e \in alive /\ car = None /\ IsSome(carNext))
       => /\ unNext = Slots
          /\ buf' = buf
          /\ typed' = typed
          /\ marker' = marker
    /\ \A s \in Registered :
         LET T == Unwrap(sysType[s])
         IN  /\ (s \in un /\ ~RunsNow(s) /\ IsSome(carNext))
                => s \in unNext
             /\ (/\ RunsNow(s)
                 /\ e \in alive
                 /\ marker[e][T]
                 /\ IsSome(car)
                 /\ s \in un
                 /\ other = None)
                => /\ Cardinality(InsertsAt(buf'[s], e, T)) = 1
                   /\ QueuedPair(buf'[s], <<InsertTypedResponse(e, T, Res(Unwrap(car))),
                                            RemoveMarker(e, T)>>)
                   /\ s \notin unNext
             /\ (/\ AppliesNow
                 /\ e \in alive
                 /\ marker[e][T]
                 /\ IsSome(car)
                 /\ s \in un
                 /\ ~Pending(e, T))
                => /\ marker'[e][T]
                   /\ typed'[e][T] = typed[e][T]
                   /\ s \in unNext
             /\ (/\ AppliesNow
                 /\ e \in alive
                 /\ InsertsAt(buf[s], e, T) # {})
                => /\ IsSome(typed'[e][T])
                   /\ ~marker'[e][T]

\* C17: detection does not depend on where in the tick the carrier is
\* attached.  When a raw carrier goes from absent to present on an entity,
\* it is freshly added for every watcher, the ones that have already run in
\* the tick included, and the attachment queues nothing; it stays fresh for
\* a watcher until that watcher runs; the run of the watcher of T on an
\* entity holding RequestType<T> queues exactly one insert for it and ends
\* the freshness; and at the end of a tick the entity is finalized if the
\* watcher's run of that tick queued it, and is left pending and still
\* fresh (to be detected by the next tick's run) if the carrier came after
\* the run.
C17_AttachPosition ==
    [][ \A e \in Entities :
          /\ CarrierSteps(e, resp[e], resp'[e], unseenResp[e], unseenResp'[e],
                          err[e], OkOf)
          /\ CarrierSteps(e, err[e], err'[e], unseenErr[e], unseenErr'[e],
                          resp[e], ErrOf)
      ]_vars

\* C17 witness: the watcher of u32 has run in this tick and queued nothing,
\* and a pending entity now holds an HttpResponse that is fresh for it.
C17_Witness ==
    \E s \in ran, e \in alive :
        /\ sysType[s] = Some("u32")
        /\ buf[s] = <<>>
        /\ marker[e]["u32"]
        /\ IsSome(resp[e])
        /\ s \in unseenResp[e]
        /\ typed[e]["u32"] = None

\* r is the raw result of a carrier entity e holds.
IsResultOfCarrier(e, r) ==
    \/ IsSome(resp[e]) /\ r = Ok(Unwrap(resp[e]))
    \/ IsSome(err[e]) /\ r = Err(Unwrap(err[e]))

\* The results the frame's buffers hold for entity e, whatever the type.
ResultsFor(e) == UNION {InsertedResults(e, T) : T \in Types}

\* C18: an entity pending for two registered types is finalized for both
\* by one carrier, in either order of the two watchers.  The run of each
\* watcher queues the finalize of its own type for an entity holding its
\* marker and a fresh carrier, whether or not the other watcher has already
\* queued its own; and when the commands of a tick in which both did take
\* effect, the entity holds TypedResponse<T1> and TypedResponse<T2>, neither
\* marker, and, the buffers holding one raw result for the entity, that same
\* result in both.
C18_TwoTypesOneCarrier ==
    [][ /\ \A s \in Registered, e \in Entities :
            (/\ RunsNow(s)
             /\ e \in alive
             /\ marker[e][Unwrap(sysType[s])]
             /\ FreshCarrier(s, e))
            => /\ QueuesFinalize(buf'[s], e, Unwrap(sysType[s]))
               /\ \A i \in InsertsAt(buf'[s], e, Unwrap(sysType[s])) :
                    IsResultOfCarrier(e, buf'[s][i].result)
        /\ \A e \in Entities, T1, T2 \in Types :
            (/\ AppliesNow
             /\ e \in alive
             /\ T1 # T2
             /\ InsertedResults(e, T1) # {}
             /\ InsertedResults(e, T2) # {})
            => /\ IsSome(typed'[e][T1]) /\ IsSome(typed'[e][T2])
               /\ ~marker'[e][T1] /\ ~marker'[e][T2]
               /\ Unwrap(typed'[e][T1]) \in InsertedResults(e, T1)
               /\ Unwrap(typed'[e][T2]) \in InsertedResults(e, T2)
               /\ Cardinality(ResultsFor(e)) = 1 => typed'[e][T1] = typed'[e][T2]
      ]_vars

\* C18 witness: the watcher of bool registered before the watcher of u32,
\* and an entity finalized for both types with the payload of its carrier.
C18_Witness ==
    /\ sysType[1] = Some("bool")
    /\ sysType[2] = Some("u32")
    /\ AtFrameBoundary
    /\ \E e \in alive :
        /\ IsSome(resp[e])
        /\ err[e] = None
        /\ typed[e]["u32"] = Some(Ok(Unwrap(resp[e])))
        /\ typed[e]["bool"] = Some(Ok(Unwrap(resp[e])))
        /\ ~marker[e]["u32"]
        /\ ~marker[e]["bool"]

\* The first system registered for the type system s watches.
FirstOf(s) == CHOOSE r \in Registered :
    sysType[r] = sysType[s] /\ \A q \in Registered : sysType[q] = sysType[s] => r <= q

\* The frame's commands with the buffers of the repeated registrations
\* left out: what one registration per type queues.
RECURSIVE FirstBuffersFrom(_)
FirstBuffersFrom(s) ==
    IF s > MaxWatchers THEN <<>>
    ELSE (IF s \in Registered /\ FirstOf(s) = s THEN buf[s] ELSE <<>>)
         \o FirstBuffersFrom(s + 1)

\* T is registered more than once.
RegisteredTwice(T) == Cardinality(WatchersOf(T)) >= 2

====
